---- MODULE Spec2Model ----
(***************************************************************************)
(* Model of src/index.mjs: the MCP Kanka server.                           *)
(*                                                                         *)
(*   - start-up: the KANKA_TOKEN check, process.exit(1), app.listen;       *)
(*   - the transport front end: ALL /mcp, GET /sse, the 'close' listener   *)
(*     of an SSE response, POST /messages, and the sseTransports registry; *)
(*   - the tool pipeline: schema validation, the five tool handlers and    *)
(*     the kanka() upstream client.                                        *)
(*                                                                         *)
(* Spec is the server process (start-up and transports); ToolSpec is one   *)
(* tool invocation after another through validation, handler and kanka().  *)
(***************************************************************************)
EXTENDS Integers, Sequences, FiniteSets, TLC

VARIABLES
    pc,               \* "boot" | "configured" | "serving" | "exited" | "crashed"
    TOKEN,            \* process.env.KANKA_TOKEN
    DEFAULT_CAMPAIGN_ID, \* process.env.KANKA_CAMPAIGN_ID || null
    listening,        \* app.listen has bound the port
    sseTransports,    \* the registry: own properties sessionId -> transport
    sessionIdOf,      \* transport.sessionId of each SSE transport created
    connState,        \* per SSE connection: "none" | "pending" | "connected" | "closed"
    announced,        \* SSE connections whose connect resolved (client got its id)
    nextConn,         \* number of the next SSE connection
    mcpCount,         \* /mcp requests handled so far
    serverTransport,  \* the transport last handed to the one shared server
    received,         \* per SSE transport: handlePostMessage calls it got
    posts,            \* POST /messages requests handled so far
    lastPost,         \* outcome of the POST /messages handled last
    call,             \* the tool invocation in progress
    upstream,         \* paths fetched from the upstream API for that invocation
    result            \* how that invocation ended

serverVars == <<pc, TOKEN, DEFAULT_CAMPAIGN_ID, listening, sseTransports,
                sessionIdOf, connState, announced, nextConn, mcpCount,
                serverTransport, received, posts, lastPost>>
toolVars == <<call, upstream, result>>
vars == <<pc, TOKEN, DEFAULT_CAMPAIGN_ID, listening, sseTransports,
          sessionIdOf, connState, announced, nextConn, mcpCount,
          serverTransport, received, posts, lastPost, call, upstream, result>>

-----------------------------------------------------------------------------
(* Bounds *)

MaxConn == 2
MaxMcp == 2
MaxPosts == 2

Conns == 1..MaxConn

-----------------------------------------------------------------------------
(* Environment values.  An unset variable reads as undefined; both undefined *)
(* and the empty string are falsy.                                           *)

Unset == "<undefined>"
EnvValues == {Unset, "", "7"}
TokenValues == {Unset, "", "secret"}

Falsy(v) == v = Unset \/ v = ""

\* line 12: process.env.KANKA_CAMPAIGN_ID || null
Null == "<null>"
DefaultCampaignId(env) == IF Falsy(env) THEN Null ELSE env

\* line 15: if (!TOKEN)
TokenMissing_emptyOnly(tok) == tok = ""
TokenMissing(tok) == Falsy(tok)

-----------------------------------------------------------------------------
(* Session identifiers and the registry object *)

\* transport.sessionId: a fresh random UUID per SSEServerTransport
Uuid(n) == "uuid-" \o ToString(n)
Uuids == {Uuid(n) : n \in Conns}

\* what req.query.sessionId can select on sseTransports: an issued or unissued
\* UUID, the key "undefined" of a query without sessionId, and names that every
\* plain object inherits from Object.prototype
ObjectPrototypeKeys == {"constructor", "__proto__"}
QueryKeys == Uuids \cup {"uuid-0", "undefined"} \cup ObjectPrototypeKeys

NoTransport == [kind |-> "none", n |-> 0]
SseTransport(t) == [kind |-> "sse", n |-> t]
McpTransport(r) == [kind |-> "mcp", n |-> r]

\* line 139: const sseTransports = ({})
EmptyRegistry == [k \in {} |-> 0]

\* line 143: sseTransports[transport.sessionId] = transport
Register_skip(reg, id, t) == reg
Register(reg, id, t) == [k \in DOMAIN reg \cup {id} |-> IF k = id THEN t ELSE reg[k]]

\* line 144: delete sseTransports[transport.sessionId]
Unregister_keep(reg, id) == reg
Unregister(reg, id) == [k \in DOMAIN reg \ {id} |-> reg[k]]

\* line 150: sseTransports[sessionId], a property read on a plain object: an own
\* property, else a property inherited from Object.prototype, else undefined
Lookup_any(reg, key) ==
    IF DOMAIN reg # {}
    THEN [kind |-> "transport", n |-> reg[CHOOSE k \in DOMAIN reg : \A j \in DOMAIN reg : reg[k] <= reg[j]]]
    ELSE [kind |-> "undefined", n |-> 0]
Lookup(reg, key) ==
    IF key \in DOMAIN reg THEN [kind |-> "transport", n |-> reg[key]]
    ELSE IF key \in ObjectPrototypeKeys THEN [kind |-> "inherited", n |-> 0]
    ELSE [kind |-> "undefined", n |-> 0]

NoPost == [sessionId |-> "", outcome |-> "none", status |-> 0, target |-> 0]

-----------------------------------------------------------------------------
(* Tool arguments: JavaScript values as <<type, text>>, text being what a    *)
(* template literal interpolates                                             *)

Undefined == <<"undefined", "">>
Str(s) == <<"string", s>>
Num(s) == <<"number", s>>

TypeOf(v) == v[1]
Text(v) == v[2]
Truthy(v) == TypeOf(v) # "undefined" /\ Text(v) # "" /\ v # Num("0")

Tools == {"kanka_list_campaigns", "kanka_list_entities", "kanka_get_entity",
          "kanka_search_by_name", "kanka_raw_get"}
Fields == {"campaign_id", "entity", "id", "name", "path"}

\* lines 47, 61-64, 80-84, 100-104, 120: the inputSchema of each tool
InputSchema(tool) ==
    CASE tool = "kanka_list_campaigns" -> {}
      [] tool = "kanka_list_entities" ->
            {[field |-> "campaign_id", type |-> "string", optional |-> TRUE],
             [field |-> "entity", type |-> "string", optional |-> FALSE]}
      [] tool = "kanka_get_entity" ->
            {[field |-> "campaign_id", type |-> "string", optional |-> TRUE],
             [field |-> "entity", type |-> "string", optional |-> FALSE],
             [field |-> "id", type |-> "number", optional |-> FALSE]}
      [] tool = "kanka_search_by_name" ->
            {[field |-> "campaign_id", type |-> "string", optional |-> TRUE],
             [field |-> "entity", type |-> "string", optional |-> FALSE],
             [field |-> "name", type |-> "string", optional |-> FALSE]}
      [] tool = "kanka_raw_get" ->
            {[field |-> "path", type |-> "string", optional |-> FALSE]}

\* line 63: the entity-type names the description of entity lists
EntityTypes == {"characters", "locations", "items", "families", "notes",
                "journals", "quests", "organizations", "races", "events",
                "tags", "abilities", "calendars", "dice_rolls"}

\* the values a client may send for each parameter
ArgValues(field) ==
    CASE field = "campaign_id" -> {Undefined, Str(""), Str("9"), Num("9")}
      [] field = "entity" -> {Undefined, Str("characters"), Str("foo"), Num("1")}
      [] field = "id" -> {Undefined, Num("42"), Str("42")}
      [] field = "name" -> {Undefined, Str("a b"), Num("1")}
      [] field = "path" -> {Undefined, Str("/campaigns?page=2"), Num("1")}

SchemaFields(tool) == {p.field : p \in InputSchema(tool)}

\* the argument objects a client may send to a tool
ArgsFor(tool) ==
    {a \in [Fields -> UNION {ArgValues(f) : f \in Fields}] :
        \A f \in Fields : IF f \in SchemaFields(tool)
                          THEN a[f] \in ArgValues(f)
                          ELSE a[f] = Undefined}

\* lines 42-126: registerTool validates the arguments against the tool's
\* inputSchema (z.string(), z.number(), .optional()) before calling the handler
ParamAccepts(p, v) ==
    IF TypeOf(v) = "undefined" THEN p.optional ELSE TypeOf(v) = p.type
Validates_anything(tool, args) == TRUE
Validates(tool, args) == \A p \in InputSchema(tool) : ParamAccepts(p, args[p.field])

\* lines 67, 87, 107: campaign_id || DEFAULT_CAMPAIGN_ID
ResolveCampaign_defaultFirst(campaign_id, default) ==
    IF default # Null THEN default
    ELSE IF Truthy(campaign_id) THEN Text(campaign_id) ELSE Null
ResolveCampaign(campaign_id, default) ==
    IF Truthy(campaign_id) THEN Text(campaign_id) ELSE default

\* line 109: encodeURIComponent(name)
EncodeURIComponent(s) ==
    CASE s = "a b" -> "a%20b"
      [] OTHER -> s

\* lines 50, 69, 89, 109, 123: the path each handler hands to kanka()
ToolPath(tool, campaignId, args) ==
    CASE tool = "kanka_list_campaigns" -> "/campaigns"
      [] tool = "kanka_list_entities" ->
            "/campaigns/" \o campaignId \o "/" \o Text(args["entity"])
                \o "?page=1&limit=100"
      [] tool = "kanka_get_entity" ->
            "/campaigns/" \o campaignId \o "/" \o Text(args["entity"])
                \o "/" \o Text(args["id"])
      [] tool = "kanka_search_by_name" ->
            "/campaigns/" \o campaignId \o "/" \o Text(args["entity"])
                \o "?name=" \o EncodeURIComponent(Text(args["name"]))
                \o "&page=1&limit=50"
      [] tool = "kanka_raw_get" -> Text(args["path"])

CampaignTools == {"kanka_list_entities", "kanka_get_entity", "kanka_search_by_name"}

\* line 10
KANKA_BASE == "https://kanka.io/api/1.0"

\* the responses the upstream API may give
Statuses == {200, 404, 500}
StatusText(status) ==
    CASE status = 200 -> "OK"
      [] status = 404 -> "Not Found"
      [] status = 500 -> "Internal Server Error"
Bodies == {"{\"data\":[]}", "<html>"}
Replies == [status : Statuses, body : Bodies, readable : BOOLEAN]
NoReply == [status |-> 0, body |-> "", readable |-> FALSE]

\* line 29: res.ok
ResOk_below500(status) == status < 500
ResOk(status) == status >= 200 /\ status <= 299

\* line 33: res.json(), and line 51: JSON.stringify(data, null, 2)
JsonParses(body) == body = "{\"data\":[]}"
PrettyJson(body) ==
    CASE body = "{\"data\":[]}" -> "{\n  \"data\": []\n}"
      [] OTHER -> body

NoResult == [kind |-> "none", message |-> "", content |-> <<>>]
Failure(kind, message) == [kind |-> kind, message |-> message, content |-> <<>>]

\* lines 29-33 of kanka() and the handler's return: what a response becomes
KankaResult(reply) ==
    IF ~ResOk(reply.status)
    THEN Failure("Error",
                 "Kanka " \o ToString(reply.status) \o " " \o StatusText(reply.status)
                     \o ": " \o (IF reply.readable THEN reply.body ELSE ""))
    ELSE IF ~JsonParses(reply.body)
    THEN Failure("SyntaxError", "Unexpected token")
    ELSE [kind |-> "ok", message |-> "",
          content |-> <<[type |-> "text", text |-> PrettyJson(reply.body)]>>]

NoArgs == [f \in Fields |-> Undefined]
NoCall == [tool |-> "none", args |-> NoArgs, phase |-> "idle", reply |-> NoReply]

-----------------------------------------------------------------------------
(* Start-up *)

Init ==
    /\ pc = "boot"
    /\ TOKEN \in TokenValues
    /\ DEFAULT_CAMPAIGN_ID = DefaultCampaignId(Unset)
    /\ listening = FALSE
    /\ sseTransports = EmptyRegistry
    /\ sessionIdOf = [t \in Conns |-> ""]
    /\ connState = [t \in Conns |-> "none"]
    /\ announced = {}
    /\ nextConn = 1
    /\ mcpCount = 0
    /\ serverTransport = NoTransport
    /\ received = [t \in Conns |-> 0]
    /\ posts = 0
    /\ lastPost = NoPost
    /\ call = NoCall
    /\ upstream = <<>>
    /\ result = NoResult

\* lines 15-18: without a token the process exits before anything else runs
CheckToken ==
    /\ pc = "boot"
    /\ pc' = IF TokenMissing(TOKEN) THEN "exited" ELSE "configured"
    /\ UNCHANGED <<TOKEN, DEFAULT_CAMPAIGN_ID, listening, sseTransports,
                   sessionIdOf, connState, announced, nextConn, mcpCount,
                   serverTransport, received, posts, lastPost>>
    /\ UNCHANGED toolVars

\* lines 36-126 and 129-153 build the server and the routes; line 377 binds the port
Listen ==
    /\ pc = "configured"
    /\ pc' = "serving"
    /\ listening' = TRUE
    /\ UNCHANGED <<TOKEN, DEFAULT_CAMPAIGN_ID, sseTransports,
                   sessionIdOf, connState, announced, nextConn, mcpCount,
                   serverTransport, received, posts, lastPost>>
    /\ UNCHANGED toolVars

-----------------------------------------------------------------------------
(* Transport front end *)

\* lines 133-136: a fresh transport per request, connected to the shared server
McpRequest ==
    /\ pc = "serving"
    /\ mcpCount < MaxMcp
    /\ mcpCount' = mcpCount + 1
    /\ serverTransport' = McpTransport(mcpCount + 1)
    /\ UNCHANGED <<pc, TOKEN, DEFAULT_CAMPAIGN_ID, listening, sseTransports,
                   sessionIdOf, connState, announced, nextConn,
                   received, posts, lastPost>>
    /\ UNCHANGED toolVars

\* lines 141-145, up to the await: create the transport, register it, install
\* the close listener, call server.connect
SseSubscribe(id) ==
    /\ pc = "serving"
    /\ nextConn <= MaxConn
    /\ id \in Uuids \ {sessionIdOf[t] : t \in Conns}
    /\ sessionIdOf' = [sessionIdOf EXCEPT ![nextConn] = id]
    /\ sseTransports' = Register(sseTransports, id, nextConn)
    /\ connState' = [connState EXCEPT ![nextConn] = "pending"]
    /\ serverTransport' = SseTransport(nextConn)
    /\ nextConn' = nextConn + 1
    /\ UNCHANGED <<pc, TOKEN, DEFAULT_CAMPAIGN_ID, listening, announced,
                   mcpCount, received, posts, lastPost>>
    /\ UNCHANGED toolVars

\* line 145: the awaited server.connect resolves; the transport has started and
\* the client has been told its session identifier
SseConnected(t) ==
    /\ pc = "serving"
    /\ connState[t] = "pending"
    /\ connState' = [connState EXCEPT ![t] = "connected"]
    /\ announced' = announced \cup {t}
    /\ UNCHANGED <<pc, TOKEN, DEFAULT_CAMPAIGN_ID, listening, sseTransports,
                   sessionIdOf, nextConn, mcpCount, serverTransport,
                   received, posts, lastPost>>
    /\ UNCHANGED toolVars

\* line 144: the 'close' event of the response runs the listener
ConnClose(t) ==
    /\ pc = "serving"
    /\ connState[t] \in {"pending", "connected"}
    /\ connState' = [connState EXCEPT ![t] = "closed"]
    /\ sseTransports' = Unregister(sseTransports, sessionIdOf[t])
    /\ UNCHANGED <<pc, TOKEN, DEFAULT_CAMPAIGN_ID, listening,
                   sessionIdOf, announced, nextConn, mcpCount, serverTransport,
                   received, posts, lastPost>>
    /\ UNCHANGED toolVars

\* lines 148-153.  A key that selects an inherited property passes the
\* !transport test and transport.handlePostMessage(...) throws a TypeError in
\* the async handler: the router answers 500 where it catches the rejection,
\* and where it does not the unhandled rejection ends the process.
PostMessages(sessionId) ==
    /\ pc = "serving"
    /\ posts < MaxPosts
    /\ posts' = posts + 1
    /\ LET transport == Lookup(sseTransports, sessionId) IN
        \/ /\ transport.kind = "undefined"
           /\ lastPost' = [sessionId |-> sessionId, outcome |-> "rejected",
                           status |-> 400, target |-> 0]
           /\ UNCHANGED <<pc, listening, sseTransports, connState, received>>
        \/ /\ transport.kind = "transport"
           /\ received' = [received EXCEPT ![transport.n] = @ + 1]
           /\ lastPost' = [sessionId |-> sessionId, outcome |-> "dispatched",
                           status |-> 202, target |-> transport.n]
           /\ UNCHANGED <<pc, listening, sseTransports, connState>>
        \/ /\ transport.kind = "inherited"
           /\ lastPost' = [sessionId |-> sessionId, outcome |-> "threw",
                           status |-> 500, target |-> 0]
           /\ UNCHANGED <<pc, listening, sseTransports, connState, received>>
        \/ /\ transport.kind = "inherited"
           /\ lastPost' = [sessionId |-> sessionId, outcome |-> "threw",
                           status |-> 0, target |-> 0]
           /\ pc' = "crashed"
           /\ listening' = FALSE
           /\ sseTransports' = EmptyRegistry
           /\ connState' = [t \in Conns |->
                              IF connState[t] \in {"pending", "connected"}
                              THEN "closed" ELSE connState[t]]
           /\ UNCHANGED received
    /\ UNCHANGED <<TOKEN, DEFAULT_CAMPAIGN_ID, sessionIdOf, announced, nextConn,
                   mcpCount, serverTransport>>
    /\ UNCHANGED toolVars

Next ==
    \/ CheckToken
    \/ Listen
    \/ McpRequest
    \/ \E id \in Uuids : SseSubscribe(id)
    \/ \E t \in Conns : SseConnected(t)
    \/ \E t \in Conns : ConnClose(t)
    \/ \E k \in QueryKeys : PostMessages(k)

Spec == Init /\ [][Next]_vars

-----------------------------------------------------------------------------
(* Tool pipeline *)

ToolInit ==
    /\ pc = "serving"
    /\ TOKEN = "secret"
    /\ DEFAULT_CAMPAIGN_ID \in {DefaultCampaignId(e) : e \in EnvValues}
    /\ listening = TRUE
    /\ sseTransports = EmptyRegistry
    /\ sessionIdOf = [t \in Conns |-> ""]
    /\ connState = [t \in Conns |-> "none"]
    /\ announced = {}
    /\ nextConn = 1
    /\ mcpCount = 0
    /\ serverTransport = NoTransport
    /\ received = [t \in Conns |-> 0]
    /\ posts = 0
    /\ lastPost = NoPost
    /\ call = NoCall
    /\ upstream = <<>>
    /\ result = NoResult

\* a client calls a tool with some arguments
Invoke(tool, args) ==
    /\ pc = "serving"
    /\ call.phase \in {"idle", "done"}
    /\ call' = [tool |-> tool, args |-> args, phase |-> "validating", reply |-> NoReply]
    /\ upstream' = <<>>
    /\ result' = NoResult
    /\ UNCHANGED serverVars

\* lines 42-126: the arguments are checked against the inputSchema
Validate ==
    /\ call.phase = "validating"
    /\ IF Validates(call.tool, call.args)
       THEN /\ call' = [call EXCEPT !.phase = "handler"]
            /\ UNCHANGED result
       ELSE /\ call' = [call EXCEPT !.phase = "done"]
            /\ result' = Failure("ValidationError", "Invalid arguments")
    /\ UNCHANGED upstream
    /\ UNCHANGED serverVars

\* lines 49-50, 66-69, 86-89, 106-109, 122-123: the handler up to the fetch of
\* kanka() (lines 21-28)
RunHandler ==
    /\ call.phase = "handler"
    /\ LET campaignId == ResolveCampaign(call.args["campaign_id"], DEFAULT_CAMPAIGN_ID) IN
        IF call.tool \in CampaignTools /\ campaignId = Null
        THEN /\ call' = [call EXCEPT !.phase = "done"]
             /\ result' = Failure("Error", "campaign_id mancante e KANKA_CAMPAIGN_ID non impostato")
             /\ UNCHANGED upstream
        ELSE /\ call' = [call EXCEPT !.phase = "awaiting"]
             /\ upstream' = Append(upstream,
                    [url |-> KANKA_BASE \o ToolPath(call.tool, campaignId, call.args),
                     authorization |-> "Bearer " \o TOKEN])
             /\ UNCHANGED result
    /\ UNCHANGED serverVars

\* lines 29-33 and 51, 70, 90, 110, 124: the response arrives
UpstreamReply(reply) ==
    /\ call.phase = "awaiting"
    /\ call' = [call EXCEPT !.phase = "done", !.reply = reply]
    /\ result' = KankaResult(reply)
    /\ UNCHANGED upstream
    /\ UNCHANGED serverVars

\* line 21: fetch itself rejects (no response at all)
FetchFails ==
    /\ call.phase = "awaiting"
    /\ call' = [call EXCEPT !.phase = "done"]
    /\ result' = Failure("TypeError", "fetch failed")
    /\ UNCHANGED upstream
    /\ UNCHANGED serverVars

ToolNext ==
    \/ \E tool \in Tools : \E args \in ArgsFor(tool) : Invoke(tool, args)
    \/ Validate
    \/ RunHandler
    \/ \E reply \in Replies : UpstreamReply(reply)
    \/ FetchFails

ToolSpec == ToolInit /\ [][ToolNext]_vars

-----------------------------------------------------------------------------
(* Properties *)

Open(t) == connState[t] \in {"pending", "connected"}

\* C1: every key of the session registry is the session identifier of an SSE
\* connection that is open right now, and the identifier of a connection whose
\* close has been handled is not a key of the registry (in any later state).
C1_RegistryOnlyOpen ==
    /\ \A k \in DOMAIN sseTransports :
          /\ sseTransports[k] \in Conns
          /\ sessionIdOf[sseTransports[k]] = k
          /\ Open(sseTransports[k])
    /\ \A t \in Conns :
          connState[t] = "closed" => sessionIdOf[t] \notin DOMAIN sseTransports

C1_Witness ==
    \E t, u \in Conns :
        /\ connState[t] = "closed"
        /\ connState[u] = "connected"
        /\ sessionIdOf[u] \in DOMAIN sseTransports
        /\ posts > 0

\* C2 (as claimed): a POST /messages whose sessionId has no entry in the
\* registry is answered 400, reaches no transport, leaves the registry as it
\* was and leaves the server serving.
C2_UnknownSessionIs400 ==
    [][(posts' = posts + 1 /\ lastPost'.sessionId \notin DOMAIN sseTransports)
        => /\ lastPost'.status = 400
           /\ received' = received
           /\ sseTransports' = sseTransports
           /\ pc' = "serving"]_vars

HandlerRan ==
    \/ call.phase = "awaiting"
    \/ call.phase = "done" /\ result.kind # "ValidationError"

ConfigErrorMessage == "campaign_id mancante e KANKA_CAMPAIGN_ID non impostato"

CampaignRule(given) ==
    (call.tool \in CampaignTools /\ HandlerRan) =>
        IF given \/ DEFAULT_CAMPAIGN_ID # Null
        THEN /\ Len(upstream) = 1
             /\ upstream[1].url =
                   KANKA_BASE \o ToolPath(call.tool,
                                          IF given THEN Text(call.args["campaign_id"])
                                                   ELSE DEFAULT_CAMPAIGN_ID,
                                          call.args)
        ELSE /\ upstream = <<>>
             /\ call.phase = "done"
             /\ result.kind = "Error"
             /\ result.message = ConfigErrorMessage

\* C3 (as claimed): list_entities, get_entity and search_by_name fetch under the
\* explicit campaign_id whenever one is given, else under the configured
\* default, and with neither they fail with the configuration error and fetch
\* nothing.
C3_ExplicitWheneverGiven ==
    CampaignRule(TypeOf(call.args["campaign_id"]) # "undefined")

\* C3 (amended): the same, an empty campaign_id counting as not given.
C3_ExplicitWhenNonEmpty ==
    CampaignRule(TypeOf(call.args["campaign_id"]) = "string"
                    /\ Text(call.args["campaign_id"]) # "")

C3_Witness ==
    /\ call.tool = "kanka_get_entity"
    /\ call.phase = "awaiting"
    /\ call.args["campaign_id"] = Str("9")
    /\ DEFAULT_CAMPAIGN_ID = "7"
    /\ upstream[1].url = "https://kanka.io/api/1.0/campaigns/9/characters/42"

Malformed(tool, args) ==
    \E p \in InputSchema(tool) :
        \/ TypeOf(args[p.field]) = "undefined" /\ ~p.optional
        \/ TypeOf(args[p.field]) \notin {"undefined", p.type}

\* C4: an invocation that misses a required parameter or carries a value of the
\* wrong type never reaches the handler and fetches nothing.
C4_MalformedNeverFetches ==
    (call.tool \in Tools /\ Malformed(call.tool, call.args)) =>
        /\ call.phase \in {"validating", "done"}
        /\ upstream = <<>>
        /\ result.kind \in {"none", "ValidationError"}

C4_Witness ==
    /\ call.tool = "kanka_get_entity"
    /\ call.args["entity"] = Str("characters")
    /\ call.args["id"] = Str("42")
    /\ call.phase = "done"
    /\ result.kind = "ValidationError"
    /\ upstream = <<>>

\* C5 (as claimed): list_entities with an entity outside the fixed set of
\* entity-type names fails validation and fetches nothing.
C5_EntityFromFixedSet ==
    (call.tool = "kanka_list_entities"
        /\ Text(call.args["entity"]) \notin EntityTypes) =>
        /\ call.phase \in {"validating", "done"}
        /\ upstream = <<>>

\* C6: when the upstream answers with a status outside 200..299 the invocation
\* ends failed, its error carrying the status and the body text (empty when the
\* body cannot be read), with no content block and exactly one fetch.
C6_UpstreamErrorSurfaces ==
    (call.phase = "done" /\ call.reply.status # 0
        /\ ~(call.reply.status \in 200..299)) =>
        /\ result.kind = "Error"
        /\ result.message =
              "Kanka " \o ToString(call.reply.status) \o " "
                  \o StatusText(call.reply.status) \o ": "
                  \o (IF call.reply.readable THEN call.reply.body ELSE "")
        /\ result.content = <<>>
        /\ Len(upstream) = 1

C6_Witness ==
    /\ call.phase = "done"
    /\ call.reply.status = 404
    /\ ~call.reply.readable
    /\ result.message = "Kanka 404 Not Found: "
    /\ Len(upstream) = 1

\* C7: with KANKA_TOKEN absent the process never listens, serves no request and
\* registers no session.
C7_NoTokenNoListen ==
    TOKEN = Unset =>
        /\ ~listening
        /\ pc \in {"boot", "exited"}
        /\ sseTransports = EmptyRegistry
        /\ nextConn = 1 /\ mcpCount = 0 /\ posts = 0

C7_Witness == TOKEN = Unset /\ pc = "exited"

\* C8: an SSE transport is in the registry from before its connect to the tool
\* server resolves: while connect is pending the entry is there, whenever the
\* client knows the identifier of an open session the entry is there, and a
\* close that comes while connect is pending removes the entry.
C8_RegisteredBeforeConnect ==
    \A t \in Conns :
        /\ connState[t] = "pending" =>
              /\ sessionIdOf[t] \in DOMAIN sseTransports
              /\ sseTransports[sessionIdOf[t]] = t
        /\ (t \in announced /\ connState[t] = "connected") =>
              /\ sessionIdOf[t] \in DOMAIN sseTransports
              /\ sseTransports[sessionIdOf[t]] = t
        /\ (connState[t] = "closed" /\ t \notin announced) =>
              sessionIdOf[t] \notin DOMAIN sseTransports

C8_Witness ==
    /\ pc = "serving"
    /\ \E t, u \in Conns :
          /\ connState[t] = "closed" /\ t \notin announced
          /\ connState[u] = "pending"

\* C9 (as claimed): a /mcp request touches no session-registry entry and changes
\* nothing that another request left behind; the registry is the only state
\* connections share.
C9_McpSharesNothing ==
    [][mcpCount' # mcpCount =>
          /\ sseTransports' = sseTransports
          /\ serverTransport # NoTransport => serverTransport' = serverTransport]_vars

\* C10: with several sessions open, a POST /messages for a registered session
\* identifier is dispatched once, to the transport of the subscribe that
\* generated the identifier and to no other, and leaves the registry as it
\* was; an entry leaves the registry only when its own connection closes.
C10_PostReachesOwnTransport ==
    [][/\ \A k \in DOMAIN sseTransports :
             (posts' = posts + 1 /\ lastPost'.sessionId = k) =>
                 LET t == CHOOSE c \in Conns : sessionIdOf[c] = k IN
                 /\ lastPost'.target = t
                 /\ received' = [received EXCEPT ![t] = @ + 1]
                 /\ sseTransports' = sseTransports
       /\ \A k \in DOMAIN sseTransports :
             IF k \in DOMAIN sseTransports'
             THEN sseTransports'[k] = sseTransports[k]
             ELSE Open(sseTransports[k]) /\ connState'[sseTransports[k]] = "closed"
       /\ \A t \in Conns :
             (Open(t) /\ connState'[t] = "closed" /\ pc' = "serving") =>
                 DOMAIN sseTransports' = DOMAIN sseTransports \ {sessionIdOf[t]}]_vars

C10_Witness ==
    /\ connState[1] = "connected"
    /\ connState[2] = "connected"
    /\ lastPost.outcome = "dispatched"
    /\ lastPost.sessionId = sessionIdOf[2]
    /\ lastPost.target = 2
    /\ received[2] = 1
    /\ received[1] = 0
====
